---- MODULE Spec2Model ----
(***************************************************************************)
(* Model of cacheSim.cpp: a trace-driven set-associative cache simulator.  *)
(*                                                                         *)
(* The state is the CacheTable object built by main (its geometry fields,  *)
(* its vector of CacheSets with their CacheLines, its vector of MemRefs    *)
(* and its three counters), the local refNum of read_mem_trace, and the    *)
(* position of main.  Each call main makes is one action; one iteration    *)
(* of the read_mem_trace loop (one reference) is one action.               *)
(*                                                                         *)
(* tagSize_ and tagMask_ (calculate_tag_size, calculate_tag_mask) are      *)
(* assigned once and never read by any code; they are not modelled.        *)
(***************************************************************************)
EXTENDS Integers, Sequences, FiniteSets, TLC

VARIABLES
  pc,               \* the call of main that runs next
  totalCacheSize_,  \* CacheTable::totalCacheSize_
  lineSize_,        \* CacheTable::lineSize_
  setSize_,         \* CacheTable::setSize_
  numberOfSets_,    \* CacheTable::numberOfSets_
  indexSize_,       \* CacheTable::indexSize_
  offsetSize_,      \* CacheTable::offsetSize_
  offsetMask_,      \* CacheTable::offsetMask_
  indexMask_,       \* CacheTable::indexMask_
  cacheSet_,        \* CacheTable::cacheSet_, a sequence of CacheSet records
  memRef_,          \* CacheTable::memRef_, a sequence of MemRef records
  totalHits,        \* CacheTable::totalHits
  totalMiss,        \* CacheTable::totalMiss
  totalAccess,      \* CacheTable::totalAccess
  refNum,           \* the local refNum of read_mem_trace
  hitRate,          \* CacheTable::hitRate, as <<numerator, denominator>>
  missRate          \* CacheTable::missRate, as <<numerator, denominator>>

vars == <<pc, totalCacheSize_, lineSize_, setSize_, numberOfSets_, indexSize_,
          offsetSize_, offsetMask_, indexMask_, cacheSet_, memRef_,
          totalHits, totalMiss, totalAccess, refNum, hitRate, missRate>>

geometry == <<totalCacheSize_, lineSize_, setSize_, numberOfSets_, indexSize_,
              offsetSize_, offsetMask_, indexMask_>>

totals == <<totalHits, totalMiss, totalAccess>>

rates == <<hitRate, missRate>>

(***************************************************************************)
(* Bounds and input sets                                                   *)
(***************************************************************************)

\* The longest trace the model reads.
MaxRefs == 5

\* The largest address decomposed under SpecGeom.
MaxAddress == 260

\* The length of the traces that vary the access type and the size.
MaxOpRefs == 3

\* The values an int that is read without ever having been assigned, or that
\* results from converting log2(0) = -infinity to int, may hold.
IndeterminateInt == {0, 1}

\* <<totalCacheSize, lineSize, setSize>> triples the configuration file may
\* hold in the full program: valid geometries with one to three ways, a set
\* count that is no power of two (3), a set count of 0, and a zero line size
\* and set size.
Configs ==
  { <<64, 16, 1>>, <<64, 16, 2>>, <<48, 16, 3>>,
    <<48, 16, 1>>, <<8, 16, 1>>, <<64, 0, 1>>, <<64, 16, 0>> }

\* The configurations of the geometry derivation.
GeomConfigs == {64, 100, 1024} \X {8, 16, 32} \X {1, 3, 4}

\* The addresses of the trace lines in the full program.
Addresses == {0, 16, 32, 64}

\* The access type of a trace line (enum class ReadOrWrite).  No code outside
\* print_summary reads rW_, and the traces of the model are all reads.
Ops == {"READ"}

\* The size field of a trace line.
Sizes == {4}

\* The trace lines of the runs that vary the access type and the size: both
\* access types, two sizes, two addresses that share a set.
AnyOps == {"READ", "WRITE"}

AnySizes == {1, 4}

OpAddresses == {0, 64}

(***************************************************************************)
(* Integer helpers                                                         *)
(***************************************************************************)

RECURSIVE FloorLog2(_)
FloorLog2(n) == IF n <= 1 THEN 0 ELSE 1 + FloorLog2(n \div 2)

\* The conversion of log2 rounded up instead of truncated.
Log2ToInt_ceil(n) ==
  IF n >= 1
  THEN {FloorLog2(n) + (IF 2 ^ FloorLog2(n) = n THEN 0 ELSE 1)}
  ELSE IndeterminateInt

\* (int) log2(n): exact on powers of two, truncated otherwise; the conversion
\* of -infinity (n = 0) is undefined.
Log2ToInt(n) == IF n >= 1 THEN {FloorLog2(n)} ELSE IndeterminateInt

\* pow(2, k) for the exponents the model reaches (k >= 0).
Pow2(k) == 2 ^ k

RECURSIVE BitAnd(_, _)
BitAnd(a, b) ==
  IF a = 0 \/ b = 0 THEN 0
  ELSE ((a % 2) * (b % 2)) + 2 * BitAnd(a \div 2, b \div 2)

ShiftRight(a, k) == a \div (2 ^ k)

(***************************************************************************)
(* MemRef: address decomposition                                           *)
(***************************************************************************)

\* calculate_tag shifting by the offset width alone.
calculate_tag_offset_only(address, indexSize, offsetSize) ==
  ShiftRight(address, offsetSize)

\* MemRef::calculate_tag: tag_ = address_ >> (indexSize + offsetSize)
calculate_tag(address, indexSize, offsetSize) ==
  ShiftRight(address, indexSize + offsetSize)

\* calculate_index without the shift of the masked bits.
calculate_index_no_shift(address, indexMask, offsetSize) ==
  BitAnd(address, indexMask)

\* MemRef::calculate_index: index_ = address_ & indexMask; index_ >>= offsetSize
calculate_index(address, indexMask, offsetSize) ==
  ShiftRight(BitAnd(address, indexMask), offsetSize)

\* MemRef::calculate_offset: offset_ = address_ & offsetMask
calculate_offset(address, offsetMask) == BitAnd(address, offsetMask)

\* The MemRef built for one trace line, before setHM.
NewMemRef(n, rW, size, address) ==
  [refNum  |-> n,
   rW      |-> rW,
   size    |-> size,
   address |-> address,
   tag     |-> calculate_tag(address, indexSize_, offsetSize_),
   index   |-> calculate_index(address, indexMask_, offsetSize_),
   offset  |-> calculate_offset(address, offsetMask_)]

(***************************************************************************)
(* CacheTable: geometry                                                    *)
(***************************************************************************)

\* The set count without the division by the associativity.
number_of_sets_no_ways(totalCacheSize, lineSize, setSize) ==
  totalCacheSize \div lineSize

\* The quotient calculate_number_of_sets assigns (int division).
number_of_sets(totalCacheSize, lineSize, setSize) ==
  (totalCacheSize \div lineSize) \div setSize

\* offsetMask_ = pow(2, offsetSize_) - 1
offset_mask(offsetSize) == Pow2(offsetSize) - 1

\* indexMask_ = (pow(2, indexSize_ + offsetSize_) - 1) - offsetMask_
index_mask(indexSize, offsetSize, offsetMask) ==
  (Pow2(indexSize + offsetSize) - 1) - offsetMask

(***************************************************************************)
(* CacheSet: the lines of one set, a sequence of [tag, LRUFlag]            *)
(***************************************************************************)

\* add_new_cache_line ageing the lines already in the set.
add_new_cache_line_ageing(lines, tag) ==
  Append([i \in DOMAIN lines |->
            [tag |-> lines[i].tag, LRUFlag |-> lines[i].LRUFlag + 1]],
         [tag |-> tag, LRUFlag |-> 0])

\* CacheSet::add_new_cache_line: push_back a line with LRUFlag_ = 0.
add_new_cache_line(lines, tag) ==
  Append(lines, [tag |-> tag, LRUFlag |-> 0])

\* update_LRUs ageing no line.
update_LRUs_none(lines) == lines

\* CacheSet::update_LRUs: increment_LRU on every line.
update_LRUs(lines) ==
  [i \in DOMAIN lines |-> [lines[i] EXCEPT !.LRUFlag = @ + 1]]

\* The loop of find_LRU from position it on, currentLRU being the candidate.
RECURSIVE find_LRU_from(_, _, _)
find_LRU_from(lines, it, currentLRU) ==
  IF it > Len(lines) THEN currentLRU
  ELSE find_LRU_from(lines, it + 1,
         IF lines[currentLRU].LRUFlag < lines[it].LRUFlag
         THEN it ELSE currentLRU)

\* find_LRU comparing with <=: the last line of maximal LRUFlag.
RECURSIVE find_LRU_last_from(_, _, _)
find_LRU_last_from(lines, it, currentLRU) ==
  IF it > Len(lines) THEN currentLRU
  ELSE find_LRU_last_from(lines, it + 1,
         IF lines[currentLRU].LRUFlag <= lines[it].LRUFlag
         THEN it ELSE currentLRU)

find_LRU_last(lines) ==
  IF lines = <<>> THEN 0 ELSE find_LRU_last_from(lines, 1, 1)

\* CacheSet::find_LRU: the position of the line to replace; 0 stands for
\* begin() == end() of an empty vector.
find_LRU(lines) ==
  IF lines = <<>> THEN 0 ELSE find_LRU_from(lines, 1, 1)

\* The loop of check_cache_lines from position it on.
RECURSIVE check_from(_, _, _)
check_from(lines, it, tag) ==
  IF it > Len(lines) THEN [found |-> FALSE, lines |-> lines]
  ELSE IF tag = lines[it].tag
       THEN [found |-> TRUE,
             lines |-> [update_LRUs(lines) EXCEPT ![it].LRUFlag = 0]]
       ELSE check_from(lines, it + 1, tag)

\* check_cache_lines starting its loop at the second line.
check_cache_lines_from_second(lines, tag) == check_from(lines, 2, tag)

\* check_cache_lines with set_LRU called before update_LRUs: the matching
\* line is aged with the others.
check_cache_lines_reset_first(lines, tag) ==
  LET c == check_from(lines, 1, tag)
  IN IF c.found
     THEN [found |-> TRUE,
           lines |-> [i \in DOMAIN lines |->
                        [tag |-> c.lines[i].tag,
                         LRUFlag |-> IF c.lines[i].LRUFlag = 0
                                     THEN 1 ELSE c.lines[i].LRUFlag]]]
     ELSE c

\* CacheSet::check_cache_lines: on the first line holding tag, age every line,
\* reset that line and return true; otherwise return false.
check_cache_lines(lines, tag) == check_from(lines, 1, tag)

\* update_cache_lines testing size() <= setSize_: a full set grows.
update_cache_lines_grow(lines, setSize, tag) ==
  IF Len(lines) <= setSize
  THEN [lines |-> add_new_cache_line(lines, tag), fault |-> FALSE]
  ELSE [lines |-> [update_LRUs(lines) EXCEPT
                     ![find_LRU(lines)] = [tag |-> tag, LRUFlag |-> 0]],
        fault |-> FALSE]

\* CacheSet::update_cache_lines.  fault: the set has setSize_ = 0 and no
\* line, so find_LRU returns end() and setTag / set_LRU write through it.
update_cache_lines(lines, setSize, tag) ==
  IF Len(lines) < setSize
  THEN [lines |-> add_new_cache_line(lines, tag), fault |-> FALSE]
  ELSE LET lineToReplace == find_LRU(lines)
       IN IF lineToReplace = 0
          THEN [lines |-> lines, fault |-> TRUE]
          ELSE [lines |-> [update_LRUs(lines) EXCEPT
                             ![lineToReplace] = [tag |-> tag, LRUFlag |-> 0]],
                fault |-> FALSE]

(***************************************************************************)
(* CacheTable: the hit / miss decision                                     *)
(***************************************************************************)

\* The loop of determine_hit_or_miss from set it on.
RECURSIVE determine_from(_, _, _, _, _, _)
determine_from(sets, it, index, tag, hits, miss) ==
  IF it > Len(sets)
  THEN [hM |-> FALSE, cacheSet |-> sets, totalHits |-> hits,
        totalMiss |-> miss + 1, fault |-> FALSE]
  ELSE IF index = sets[it].index
       THEN LET c == check_cache_lines(sets[it].cacheLine, tag)
                u == update_cache_lines(sets[it].cacheLine, sets[it].setSize, tag)
            IN IF c.found
               THEN [hM |-> TRUE,
                     cacheSet |-> [sets EXCEPT ![it].cacheLine = c.lines],
                     totalHits |-> hits + 1, totalMiss |-> miss,
                     fault |-> FALSE]
               ELSE [hM |-> FALSE,
                     cacheSet |-> [sets EXCEPT ![it].cacheLine = u.lines],
                     totalHits |-> hits, totalMiss |-> miss + 1,
                     fault |-> u.fault]
       ELSE determine_from(sets, it + 1, index, tag, hits, miss)

\* determine_hit_or_miss counting every access as a miss as well.
determine_hit_or_miss_count_miss(sets, index, tag, hits, miss) ==
  [determine_from(sets, 1, index, tag, hits, miss) EXCEPT !.totalMiss = miss + 1]

\* determine_hit_or_miss without the comparison of indexes: every reference
\* is looked up in the first set.
determine_hit_or_miss_first_set(sets, index, tag, hits, miss) ==
  IF sets = <<>>
  THEN determine_from(sets, 1, index, tag, hits, miss)
  ELSE determine_from(sets, 1, sets[1].index, tag, hits, miss)

\* CacheTable::determine_hit_or_miss: the returned bool, the sets and the
\* two counters it leaves behind.
determine_hit_or_miss(sets, index, tag, hits, miss) ==
  determine_from(sets, 1, index, tag, hits, miss)

(***************************************************************************)
(* main, one action per call                                               *)
(***************************************************************************)

\* new CacheTable: the default constructor assigns no member.  The three
\* counters and numberOfSets_ can be read before any assignment and start
\* indeterminate; every other member is assigned before it is read, and
\* starts here at a placeholder.
Init ==
  /\ pc = "read_cache_config"
  /\ totalCacheSize_ = 0
  /\ lineSize_ = 0
  /\ setSize_ = 0
  /\ numberOfSets_ \in IndeterminateInt
  /\ indexSize_ = 0
  /\ offsetSize_ = 0
  /\ offsetMask_ = 0
  /\ indexMask_ = 0
  /\ cacheSet_ = <<>>
  /\ memRef_ = <<>>
  /\ totalHits \in IndeterminateInt
  /\ totalMiss \in IndeterminateInt
  /\ totalAccess \in IndeterminateInt
  /\ refNum = 0
  /\ hitRate = <<0, 0>>
  /\ missRate = <<0, 0>>

\* CacheTable::read_cache_config: the three integers of the file.
ReadCacheConfig(configs) ==
  /\ pc = "read_cache_config"
  /\ \E c \in configs :
       /\ totalCacheSize_' = c[1]
       /\ lineSize_' = c[2]
       /\ setSize_' = c[3]
  /\ pc' = "calculate_number_of_sets"
  /\ UNCHANGED <<numberOfSets_, indexSize_, offsetSize_, offsetMask_,
                 indexMask_, cacheSet_, memRef_, totals, refNum, rates>>

ReadCacheConfigFile == ReadCacheConfig(Configs)

ReadCacheConfigGeom == ReadCacheConfig(GeomConfigs)

\* CacheTable::calculate_number_of_sets
CalculateNumberOfSets ==
  /\ pc = "calculate_number_of_sets"
  /\ numberOfSets_' =
       IF (lineSize_ # 0) /\ (setSize_ # 0)
       THEN number_of_sets(totalCacheSize_, lineSize_, setSize_)
       ELSE numberOfSets_
  /\ pc' = "create_cache_sets"
  /\ UNCHANGED <<totalCacheSize_, lineSize_, setSize_, indexSize_, offsetSize_,
                 offsetMask_, indexMask_, cacheSet_, memRef_, totals, refNum,
                 rates>>

\* CacheTable::create_cache_sets(get_number_of_sets()): index_ of a new
\* CacheSet is not assigned here and not read before the next call.
CreateCacheSets ==
  /\ pc = "create_cache_sets"
  /\ cacheSet_' = [i \in 1..numberOfSets_ |->
                     [setSize |-> setSize_, index |-> 0, cacheLine |-> <<>>]]
  /\ pc' = "set_index_for_cache_sets"
  /\ UNCHANGED <<geometry, memRef_, totals, refNum, rates>>

\* CacheTable::set_index_for_cache_sets
SetIndexForCacheSets ==
  /\ pc = "set_index_for_cache_sets"
  /\ cacheSet_' = [i \in DOMAIN cacheSet_ |->
                     [cacheSet_[i] EXCEPT !.index = i - 1]]
  /\ pc' = "calculate_index_size"
  /\ UNCHANGED <<geometry, memRef_, totals, refNum, rates>>

\* CacheTable::calculate_index_size
CalculateIndexSize ==
  /\ pc = "calculate_index_size"
  /\ indexSize_' \in Log2ToInt(numberOfSets_)
  /\ pc' = "calculate_offset_size"
  /\ UNCHANGED <<totalCacheSize_, lineSize_, setSize_, numberOfSets_,
                 offsetSize_, offsetMask_, indexMask_, cacheSet_, memRef_,
                 totals, refNum, rates>>

\* CacheTable::calculate_offset_size
CalculateOffsetSize ==
  /\ pc = "calculate_offset_size"
  /\ offsetSize_' \in Log2ToInt(lineSize_)
  /\ pc' = "calculate_offset_mask"
  /\ UNCHANGED <<totalCacheSize_, lineSize_, setSize_, numberOfSets_,
                 indexSize_, offsetMask_, indexMask_, cacheSet_, memRef_,
                 totals, refNum, rates>>

\* CacheTable::calculate_offset_mask
CalculateOffsetMask ==
  /\ pc = "calculate_offset_mask"
  /\ offsetMask_' = offset_mask(offsetSize_)
  /\ pc' = "calculate_index_mask"
  /\ UNCHANGED <<totalCacheSize_, lineSize_, setSize_, numberOfSets_,
                 indexSize_, offsetSize_, indexMask_, cacheSet_, memRef_,
                 totals, refNum, rates>>

\* CacheTable::calculate_index_mask
CalculateIndexMask ==
  /\ pc = "calculate_index_mask"
  /\ indexMask_' = index_mask(indexSize_, offsetSize_, offsetMask_)
  /\ pc' = "read_mem_trace"
  /\ UNCHANGED <<totalCacheSize_, lineSize_, setSize_, numberOfSets_,
                 indexSize_, offsetSize_, offsetMask_, cacheSet_, memRef_,
                 totals, refNum, rates>>

\* One iteration of the loop of CacheTable::read_mem_trace: a line of the
\* trace is parsed, decomposed, classified and stored.  When the replacement
\* wrote through end() (fault), this is the outcome where the run goes on.
ReadMemTraceOf(ops, sizes, addresses, maxRefs) ==
  /\ pc = "read_mem_trace"
  /\ refNum < maxRefs
  /\ \E rW \in ops, size \in sizes, address \in addresses :
       LET memRef == NewMemRef(refNum, rW, size, address)
           r == determine_hit_or_miss(cacheSet_, memRef.index, memRef.tag,
                                      totalHits, totalMiss)
       IN /\ cacheSet_' = r.cacheSet
          /\ totalHits' = r.totalHits
          /\ totalMiss' = r.totalMiss
          /\ memRef_' = Append(memRef_, memRef @@ ("hM" :> r.hM))
  /\ refNum' = refNum + 1
  /\ totalAccess' = totalAccess + 1
  /\ UNCHANGED <<pc, geometry, rates>>

ReadMemTrace == ReadMemTraceOf(Ops, Sizes, Addresses, MaxRefs)

\* The same iteration when the write through end() of an empty vector ends
\* the process inside determine_hit_or_miss.
ReadMemTraceFaultOf(addresses, maxRefs) ==
  /\ pc = "read_mem_trace"
  /\ refNum < maxRefs
  /\ \E address \in addresses :
       LET memRef == NewMemRef(refNum, "READ", 0, address)
       IN determine_hit_or_miss(cacheSet_, memRef.index, memRef.tag,
                                totalHits, totalMiss).fault
  /\ pc' = "crashed"
  /\ UNCHANGED <<geometry, cacheSet_, memRef_, totals, refNum, rates>>

ReadMemTraceFault == ReadMemTraceFaultOf(Addresses, MaxRefs)

\* std::getline fails at the end of the trace: read_mem_trace returns.
EndOfTrace ==
  /\ pc = "read_mem_trace"
  /\ pc' = "print_summary"
  /\ UNCHANGED <<geometry, cacheSet_, memRef_, totals, refNum, rates>>

\* CacheTable::print_summary: the two rates it stores.
PrintSummary ==
  /\ pc = "print_summary"
  /\ hitRate' = <<totalHits, totalAccess>>
  /\ missRate' = <<totalMiss, totalAccess>>
  /\ pc' = "done"
  /\ UNCHANGED <<geometry, cacheSet_, memRef_, totals, refNum>>

Next ==
  \/ ReadCacheConfigFile
  \/ CalculateNumberOfSets
  \/ CreateCacheSets
  \/ SetIndexForCacheSets
  \/ CalculateIndexSize
  \/ CalculateOffsetSize
  \/ CalculateOffsetMask
  \/ CalculateIndexMask
  \/ ReadMemTrace
  \/ ReadMemTraceFault
  \/ EndOfTrace
  \/ PrintSummary

Spec == Init /\ [][Next]_vars

(***************************************************************************)
(* The geometry derivation and the decomposition on their own: every       *)
(* configuration of GeomConfigs, every address up to MaxAddress.           *)
(***************************************************************************)

\* Lines 452-455 of read_mem_trace for one address: the MemRef is built and
\* decomposed; it is kept as the only element of memRef_.
DecomposeMemRef ==
  /\ pc = "read_mem_trace"
  /\ memRef_ = <<>>
  /\ \E rW \in Ops, size \in Sizes, address \in 0..MaxAddress :
       memRef_' = <<NewMemRef(0, rW, size, address)>>
  /\ UNCHANGED <<pc, geometry, cacheSet_, totals, refNum, rates>>

NextGeom ==
  \/ ReadCacheConfigGeom
  \/ CalculateNumberOfSets
  \/ CreateCacheSets
  \/ SetIndexForCacheSets
  \/ CalculateIndexSize
  \/ CalculateOffsetSize
  \/ CalculateOffsetMask
  \/ CalculateIndexMask
  \/ DecomposeMemRef

SpecGeom == Init /\ [][NextGeom]_vars

(***************************************************************************)
(* The whole program on traces whose lines vary in access type and size.   *)
(***************************************************************************)

ReadMemTraceAnyOp == ReadMemTraceOf(AnyOps, AnySizes, OpAddresses, MaxOpRefs)

ReadMemTraceAnyOpFault == ReadMemTraceFaultOf(OpAddresses, MaxOpRefs)

NextOps ==
  \/ ReadCacheConfigFile
  \/ CalculateNumberOfSets
  \/ CreateCacheSets
  \/ SetIndexForCacheSets
  \/ CalculateIndexSize
  \/ CalculateOffsetSize
  \/ CalculateOffsetMask
  \/ CalculateIndexMask
  \/ ReadMemTraceAnyOp
  \/ ReadMemTraceAnyOpFault
  \/ EndOfTrace
  \/ PrintSummary

SpecOps == Init /\ [][NextOps]_vars

(***************************************************************************)
(* Vocabulary of the properties                                            *)
(***************************************************************************)

RECURSIVE BitOr(_, _)
BitOr(a, b) ==
  IF a = 0 THEN b
  ELSE IF b = 0 THEN a
  ELSE (IF (a % 2) + (b % 2) > 0 THEN 1 ELSE 0) + 2 * BitOr(a \div 2, b \div 2)

ShiftLeft(a, k) == a * (2 ^ k)

Bit(a, b) == (a \div (2 ^ b)) % 2

IsPowerOfTwo(n) == n >= 1 /\ 2 ^ FloorLog2(n) = n

Max(S) == CHOOSE x \in S : \A y \in S : y <= x

\* main has derived the geometry and built the sets.
Configured == pc \in {"read_mem_trace", "print_summary", "done", "crashed"}

Config(total, line, set) ==
  /\ pc # "read_cache_config"
  /\ totalCacheSize_ = total
  /\ lineSize_ = line
  /\ setSize_ = set

\* A valid geometry: line size and set count are positive powers of two.
ValidGeometry ==
  /\ Configured
  /\ setSize_ >= 1
  /\ IsPowerOfTwo(lineSize_)
  /\ IsPowerOfTwo(numberOfSets_)

\* The positions in sets of the sets with this index.
SetsAt(sets, index) == {k \in DOMAIN sets : sets[k].index = index}

Tags(lines) == {lines[j].tag : j \in DOMAIN lines}

\* A line with this tag is resident in the set at this index.
Resident(sets, index, tag) ==
  \E k \in SetsAt(sets, index) : tag \in Tags(sets[k].cacheLine)

\* This step processes one reference (one iteration of read_mem_trace).
AccessStep == Len(memRef_') = Len(memRef_) + 1

\* The reference the step has just stored.
Accessed == memRef_'[Len(memRef_')]

\* The positions in refs of the references to this index (and tag).
RefsAt(refs, index) == {j \in DOMAIN refs : refs[j].index = index}

RefsOf(refs, index, tag) ==
  {j \in RefsAt(refs, index) : refs[j].tag = tag}

\* The position in refs of the most recent access to the line (index, tag).
LastUse(refs, index, tag) == Max(RefsOf(refs, index, tag))

(***************************************************************************)
(* Properties                                                              *)
(***************************************************************************)

\* C1: under a valid geometry an access is a Hit exactly when a line with its
\* tag was resident in the set at its index immediately before the access,
\* and after a Miss a line with that tag is resident in that set.
C1_HitIffResident ==
  [][ (AccessStep /\ ValidGeometry) =>
        /\ Accessed.hM <=> Resident(cacheSet_, Accessed.index, Accessed.tag)
        /\ ~Accessed.hM => Resident(cacheSet_', Accessed.index, Accessed.tag)
    ]_vars

\* A valid geometry under which a Miss was followed by a Hit and by a Miss
\* that replaced a line.
C1_Witness ==
  /\ ValidGeometry
  /\ \E i, j, k \in DOMAIN memRef_ :
       /\ i < j /\ j < k
       /\ ~memRef_[i].hM /\ memRef_[j].hM /\ ~memRef_[k].hM
       /\ memRef_[k].index = memRef_[i].index
       /\ ~Resident(cacheSet_, memRef_[i].index, memRef_[i].tag)

\* C2: when a miss falls on a full set, the line whose tag is overwritten is
\* the line of that set whose most recent access is the oldest; no other
\* line of the set changes its tag.
C2_VictimIsLeastRecentlyUsed ==
  [][ AccessStep =>
        \A k \in SetsAt(cacheSet_, Accessed.index) :
          LET lines == cacheSet_[k].cacheLine
              after == cacheSet_'[k].cacheLine
          IN (~Accessed.hM /\ lines # <<>> /\ Len(lines) = cacheSet_[k].setSize)
             => \E p \in DOMAIN lines :
                  /\ DOMAIN after = DOMAIN lines
                  /\ after[p].tag = Accessed.tag
                  /\ \A q \in DOMAIN lines \ {p} : after[q].tag = lines[q].tag
                  /\ \A q \in DOMAIN lines :
                       LastUse(memRef_, Accessed.index, lines[p].tag)
                         <= LastUse(memRef_, Accessed.index, lines[q].tag)
    ]_vars

\* A three-way set that was filled, then hit on its first line, then missed:
\* the victim is not the line inserted first.
C2_Witness ==
  /\ setSize_ = 3
  /\ Len(memRef_) = 5
  /\ \A j \in 1..4 : memRef_[j].index = memRef_[5].index
  /\ ~memRef_[1].hM /\ ~memRef_[2].hM /\ ~memRef_[3].hM
  /\ memRef_[4].hM /\ memRef_[4].tag = memRef_[1].tag
  /\ ~memRef_[5].hM
  /\ Resident(cacheSet_, memRef_[1].index, memRef_[1].tag)
  /\ ~Resident(cacheSet_, memRef_[2].index, memRef_[2].tag)

\* The first four references go to one index with tags A, B, A, C, pairwise
\* distinct, and the cache has a set with that index.
C3_Scenario ==
  /\ Configured
  /\ setSize_ = 2
  /\ Len(memRef_) >= 4
  /\ \A j \in 2..4 : memRef_[j].index = memRef_[1].index
  /\ memRef_[3].tag = memRef_[1].tag
  /\ memRef_[2].tag # memRef_[1].tag
  /\ memRef_[4].tag \notin {memRef_[1].tag, memRef_[2].tag}
  /\ SetsAt(cacheSet_, memRef_[1].index) # {}

\* C3: with setSize = 2, tags A, B, A, C at one index of an empty cache give
\* Miss, Miss, Hit, Miss, and the set then holds exactly {A, C}.
C3_LRUEvictionOrder ==
  C3_Scenario =>
    /\ ~memRef_[1].hM /\ ~memRef_[2].hM /\ memRef_[3].hM /\ ~memRef_[4].hM
    /\ Len(memRef_) = 4 =>
         \A k \in SetsAt(cacheSet_, memRef_[1].index) :
           Tags(cacheSet_[k].cacheLine) = {memRef_[1].tag, memRef_[4].tag}

C3_Witness == C3_Scenario /\ Len(memRef_) = 4

\* C4: with setSize = 1 every set holds exactly the tag of the last reference
\* to its index (no line when there was none); a reference to the address of
\* the reference just before it is a Hit, and the first reference is a Miss.
\* The two statements on outcomes are about references whose index is that
\* of a set of the cache.
C4_DirectMapped ==
  (Configured /\ setSize_ = 1) =>
    /\ \A k \in DOMAIN cacheSet_ :
         LET refs == RefsAt(memRef_, cacheSet_[k].index)
             lines == cacheSet_[k].cacheLine
         IN IF refs = {} THEN lines = <<>>
            ELSE Len(lines) = 1 /\ lines[1].tag = memRef_[Max(refs)].tag
    /\ \A j \in DOMAIN memRef_ :
         SetsAt(cacheSet_, memRef_[j].index) # {} =>
           /\ j = 1 => ~memRef_[j].hM
           /\ (j > 1 /\ memRef_[j - 1].address = memRef_[j].address)
                => memRef_[j].hM

\* A direct-mapped set whose line was replaced, then accessed twice in a row.
C4_Witness ==
  /\ Configured /\ setSize_ = 1
  /\ Len(memRef_) >= 4
  /\ SetsAt(cacheSet_, memRef_[1].index) # {}
  /\ memRef_[2].index = memRef_[1].index /\ memRef_[2].tag # memRef_[1].tag
  /\ memRef_[3].address = memRef_[2].address
  /\ memRef_[4].address = memRef_[1].address
  /\ ~memRef_[4].hM

\* C5: once a reference has been processed, totalHits + totalMiss equals
\* totalAccess.
C5_TotalsAddUp ==
  refNum >= 1 => totalHits + totalMiss = totalAccess

\* C6: no counter ever decreases; a step that processes a reference appends
\* it to memRef_ with sequence number equal to the number of references
\* processed before it, adds 1 to totalAccess and 1 to the counter of its
\* outcome and leaves the other counter alone; no other step changes a
\* counter or memRef_.
C6_CountersStepByOne ==
  [][ /\ totalAccess' >= totalAccess
      /\ totalHits' >= totalHits
      /\ totalMiss' >= totalMiss
      /\ IF memRef_' # memRef_
         THEN /\ AccessStep
              /\ SubSeq(memRef_', 1, Len(memRef_)) = memRef_
              /\ Accessed.refNum = Len(memRef_)
              /\ totalAccess' = totalAccess + 1
              /\ IF Accessed.hM
                 THEN totalHits' = totalHits + 1 /\ totalMiss' = totalMiss
                 ELSE totalMiss' = totalMiss + 1 /\ totalHits' = totalHits
         ELSE UNCHANGED totals
    ]_vars

\* A run that has recorded a Hit and a Miss and has ended.
C6_Witness ==
  /\ pc = "done"
  /\ Len(memRef_) = MaxRefs
  /\ \E i, j \in DOMAIN memRef_ : memRef_[i].hM /\ ~memRef_[j].hM

\* C7: under a valid geometry the offset, index and tag of every address put
\* back at their bit positions give the address, offsetMask_ has exactly the
\* low offsetSize_ bits set and indexMask_ exactly the next indexSize_ bits.
C7_Partition ==
  (ValidGeometry /\ memRef_ # <<>>) =>
    LET m == memRef_[1]
    IN /\ BitOr(m.offset,
                BitOr(ShiftLeft(m.index, offsetSize_),
                      ShiftLeft(m.tag, offsetSize_ + indexSize_))) = m.address
       /\ \A b \in 0..(offsetSize_ + indexSize_ + FloorLog2(MaxAddress) + 1) :
            /\ (Bit(offsetMask_, b) = 1) <=> (b < offsetSize_)
            /\ (Bit(indexMask_, b) = 1)
                 <=> (offsetSize_ <= b /\ b < offsetSize_ + indexSize_)

\* An address with a non-zero offset, index and tag under a valid geometry.
C7_Witness ==
  /\ ValidGeometry
  /\ memRef_ # <<>>
  /\ memRef_[1].offset > 0 /\ memRef_[1].index > 0 /\ memRef_[1].tag > 0

\* C8 as stated: the derivation for (100, 8, 3) gives a set count that is no
\* power of two and the run does not go on to process references; the
\* derivation for (1024, 32, 4) gives 8 sets, 5 offset bits and 3 index bits.
C8_AsStated ==
  /\ (Config(100, 8, 3) /\ pc # "calculate_number_of_sets") =>
       /\ ~IsPowerOfTwo(numberOfSets_)
       /\ pc # "read_mem_trace"
  /\ (Config(1024, 32, 4) /\ Configured) =>
       numberOfSets_ = 8 /\ offsetSize_ = 5 /\ indexSize_ = 3

\* C8 as amended: the derivation for (100, 8, 3) does not fail: (100 / 8) / 3
\* is 4 in int arithmetic, and it gives 4 sets, 3 offset bits and 2 index
\* bits; the derivation for (1024, 32, 4) gives 8 sets, 5 offset bits and 3
\* index bits.
C8_Geometry ==
  /\ (Config(100, 8, 3) /\ Configured) =>
       /\ numberOfSets_ = 4 /\ offsetSize_ = 3 /\ indexSize_ = 2
       /\ Len(cacheSet_) = 4
  /\ (Config(1024, 32, 4) /\ Configured) =>
       /\ numberOfSets_ = 8 /\ offsetSize_ = 5 /\ indexSize_ = 3
       /\ Len(cacheSet_) = 8

\* The configuration (100, 8, 3) with its geometry derived and an address
\* decomposed under it.
C8_Witness ==
  /\ Config(100, 8, 3)
  /\ Configured
  /\ memRef_ # <<>>

\* The configuration the specification rejects: a zero line size or set
\* size, or a derived set count that is no positive power of two.
InvalidConfig ==
  /\ pc # "read_cache_config"
  /\ \/ lineSize_ = 0
     \/ setSize_ = 0
     \/ ~IsPowerOfTwo(number_of_sets(totalCacheSize_, lineSize_, setSize_))

\* C9: under such a configuration no set is created and no reference is
\* processed.
C9_ConfigError ==
  InvalidConfig => (cacheSet_ = <<>> /\ memRef_ = <<>> /\ refNum = 0)

\* The first three references are to 0x00, 0x10, 0x00 under (64, 16, 1).
C10_Scenario ==
  /\ Config(64, 16, 1)
  /\ Len(memRef_) >= 3
  /\ memRef_[1].address = 0
  /\ memRef_[2].address = 16
  /\ memRef_[3].address = 0

\* C10: under (64, 16, 1) there are 4 sets, 4 offset bits and 2 index bits;
\* 0x00, 0x10, 0x00 on the empty cache have indexes 0, 1, 0 and outcomes
\* Miss, Miss, Hit.
C10_EndToEnd ==
  C10_Scenario =>
    /\ numberOfSets_ = 4 /\ offsetSize_ = 4 /\ indexSize_ = 2
    /\ memRef_[1].index = 0 /\ memRef_[2].index = 1 /\ memRef_[3].index = 0
    /\ ~memRef_[1].hM /\ ~memRef_[2].hM /\ memRef_[3].hM

C10_Witness == C10_Scenario /\ Len(memRef_) = 3 /\ pc = "read_mem_trace"

\* C11: every set holds at most setSize lines and no two lines of a set hold
\* the same tag.
C11_BoundedDistinctLines ==
  \A k \in DOMAIN cacheSet_ :
    LET lines == cacheSet_[k].cacheLine
    IN /\ Len(lines) <= cacheSet_[k].setSize
       /\ \A p, q \in DOMAIN lines : lines[p].tag = lines[q].tag => p = q

\* A full three-way set that has taken four misses and a hit.
C11_Witness ==
  /\ setSize_ = 3
  /\ \E k \in DOMAIN cacheSet_ :
       /\ Len(cacheSet_[k].cacheLine) = 3
       /\ Cardinality({j \in RefsAt(memRef_, cacheSet_[k].index) :
                         ~memRef_[j].hM}) = 4
       /\ \E j \in RefsAt(memRef_, cacheSet_[k].index) : memRef_[j].hM

\* C12: once the sets are built, every index in 0..numberOfSets_-1 is the
\* index of exactly one set; an access, Hit or Miss, leaves every set whose
\* index is not the index of its address as it was: tags, recency values,
\* order and number of lines.
C12_OtherSetsUnchanged ==
  /\ [](Configured =>
          \A i \in 0..(numberOfSets_ - 1) :
            Cardinality(SetsAt(cacheSet_, i)) = 1)
  /\ [][ AccessStep =>
           /\ DOMAIN cacheSet_' = DOMAIN cacheSet_
           /\ \A k \in DOMAIN cacheSet_ :
                cacheSet_[k].index # Accessed.index
                  => cacheSet_'[k] = cacheSet_[k]
       ]_vars

\* Two sets that both hold lines, the last access being a Hit at index 0
\* made after the other set was filled.
C12_Witness ==
  /\ numberOfSets_ = 2
  /\ Len(cacheSet_) = 2
  /\ cacheSet_[1].cacheLine # <<>> /\ cacheSet_[2].cacheLine # <<>>
  /\ Len(memRef_) >= 3
  /\ memRef_[Len(memRef_)].index = 0
  /\ memRef_[Len(memRef_)].hM
  /\ memRef_[Len(memRef_) - 1].index = 1

\* C13: an access whose index is the index of no set ends the run: no such
\* reference is ever recorded with an outcome.
C13_NoSetIsFatal ==
  \A j \in DOMAIN memRef_ : SetsAt(cacheSet_, memRef_[j].index) # {}

\* C14: for every geometry whose set count was derived by
\* calculate_number_of_sets and is at least 1, with the index size the
\* truncated log2 of it, the index of every address is below the set count
\* and is the index of an existing set.
C14_IndexInRange ==
  (/\ Configured
   /\ lineSize_ # 0 /\ setSize_ # 0
   /\ numberOfSets_ >= 1
   /\ memRef_ # <<>>)
  => /\ indexSize_ = FloorLog2(numberOfSets_)
     /\ memRef_[1].index < numberOfSets_
     /\ SetsAt(cacheSet_, memRef_[1].index) # {}

\* Twelve sets (no power of two) and an address with the largest index the
\* three index bits can hold.
C14_Witness ==
  /\ Configured
  /\ numberOfSets_ = 12
  /\ memRef_ # <<>>
  /\ memRef_[1].index = 7

\* The sets as create_cache_sets and set_index_for_cache_sets left them.
EmptySets == [k \in DOMAIN cacheSet_ |-> [cacheSet_[k] EXCEPT !.cacheLine = <<>>]]

\* The run over a sequence of addresses alone, from empty sets and counters
\* at zero, under the geometry of the state: its outcomes, sets and totals.
RECURSIVE RunFrom(_, _, _)
RunFrom(addresses, j, run) ==
  IF j > Len(addresses)
  THEN run
  ELSE LET r == determine_hit_or_miss(
                  run.cacheSet,
                  calculate_index(addresses[j], indexMask_, offsetSize_),
                  calculate_tag(addresses[j], indexSize_, offsetSize_),
                  run.totalHits, run.totalMiss)
       IN RunFrom(addresses, j + 1,
                  [outcomes |-> Append(run.outcomes, r.hM),
                   cacheSet |-> r.cacheSet,
                   totalHits |-> r.totalHits,
                   totalMiss |-> r.totalMiss])

RunOf(addresses) ==
  RunFrom(addresses, 1,
          [outcomes |-> <<>>, cacheSet |-> EmptySets,
           totalHits |-> 0, totalMiss |-> 0])

AddressesOf(refs) == [j \in DOMAIN refs |-> refs[j].address]

OutcomesOf(refs) == [j \in DOMAIN refs |-> refs[j].hM]

\* The outcomes and the set contents of a run are those of its addresses,
\* whatever the access types and sizes of its trace lines.
C15_OutcomesAndSets ==
  Configured =>
    LET run == RunOf(AddressesOf(memRef_))
    IN /\ OutcomesOf(memRef_) = run.outcomes
       /\ cacheSet_ = run.cacheSet

\* C15: the outcomes, the set contents and the totals of a run are those of
\* the geometry and the sequence of its addresses: runs that differ only in
\* the access types and sizes of their trace lines agree on all three.
C15_AddressesDetermineRun ==
  Configured =>
    LET run == RunOf(AddressesOf(memRef_))
    IN /\ C15_OutcomesAndSets
       /\ totalHits = run.totalHits
       /\ totalMiss = run.totalMiss
       /\ totalAccess = Len(memRef_)

Min(S) == CHOOSE x \in S : \A y \in S : x <= y

\* C16: on a Hit the line holding the tag gets recency 0 and every other
\* line of its set gets its recency plus 1, with the tags, the order and the
\* number of lines as before; a lookup that does not find the tag returns
\* the lines as they were.
C16_HitUpdatesRecency ==
  [][ AccessStep =>
        \A k \in SetsAt(cacheSet_, Accessed.index) :
          LET lines == cacheSet_[k].cacheLine
              after == cacheSet_'[k].cacheLine
          IN IF Accessed.hM
             THEN /\ DOMAIN after = DOMAIN lines
                  /\ \A q \in DOMAIN lines : after[q].tag = lines[q].tag
                  /\ \E p \in DOMAIN lines :
                       /\ lines[p].tag = Accessed.tag
                       /\ after[p].LRUFlag = 0
                       /\ \A q \in DOMAIN lines \ {p} :
                            after[q].LRUFlag = lines[q].LRUFlag + 1
             ELSE check_cache_lines(lines, Accessed.tag)
                    = [found |-> FALSE, lines |-> lines]
    ]_vars

\* Two misses, then a Hit on each of the two lines: the line hit last, which
\* had aged to 1, has recency 0 and the other line recency 1.
C16_Witness ==
  /\ Len(memRef_) = 4
  /\ ~memRef_[1].hM /\ ~memRef_[2].hM /\ memRef_[3].hM /\ memRef_[4].hM
  /\ memRef_[3].tag # memRef_[4].tag
  /\ \E k \in SetsAt(cacheSet_, memRef_[4].index) :
       \E p, q \in DOMAIN cacheSet_[k].cacheLine :
         /\ cacheSet_[k].cacheLine[p] = [tag |-> memRef_[4].tag, LRUFlag |-> 0]
         /\ cacheSet_[k].cacheLine[q] = [tag |-> memRef_[3].tag, LRUFlag |-> 1]

\* C17: on a Miss in a set that holds fewer than setSize lines, one line
\* with the missed tag and recency 0 is appended after the lines of the set,
\* whose tags and recency values stay as they were.
C17_InsertAppends ==
  [][ AccessStep =>
        \A k \in SetsAt(cacheSet_, Accessed.index) :
          LET lines == cacheSet_[k].cacheLine
              after == cacheSet_'[k].cacheLine
          IN (~Accessed.hM /\ Len(lines) < cacheSet_[k].setSize)
             => after = Append(lines, [tag |-> Accessed.tag, LRUFlag |-> 0])
    ]_vars

\* A third line inserted into a three-way set whose first line had aged.
C17_Witness ==
  /\ setSize_ = 3
  /\ Len(memRef_) = 4
  /\ ~memRef_[4].hM
  /\ \E k \in SetsAt(cacheSet_, memRef_[4].index) :
       /\ Len(cacheSet_[k].cacheLine) = 3
       /\ cacheSet_[k].cacheLine[1].LRUFlag = 1
       /\ cacheSet_[k].cacheLine[2].LRUFlag = 0
       /\ cacheSet_[k].cacheLine[3] = [tag |-> memRef_[4].tag, LRUFlag |-> 0]

\* C18: on a Miss in a full set the victim is the first line, in iteration
\* order, among those with the maximum recency; its tag is overwritten in
\* place and its recency becomes 0, every other line keeps its tag and
\* position and gets its recency plus 1, and the number of lines is as
\* before.
C18_ReplaceFirstMaximum ==
  [][ AccessStep =>
        \A k \in SetsAt(cacheSet_, Accessed.index) :
          LET lines == cacheSet_[k].cacheLine
              after == cacheSet_'[k].cacheLine
              most == Max({lines[q].LRUFlag : q \in DOMAIN lines})
              victim == Min({q \in DOMAIN lines : lines[q].LRUFlag = most})
          IN (~Accessed.hM /\ lines # <<>>
                /\ Len(lines) >= cacheSet_[k].setSize)
             => /\ DOMAIN after = DOMAIN lines
                /\ after[victim] = [tag |-> Accessed.tag, LRUFlag |-> 0]
                /\ \A q \in DOMAIN lines \ {victim} :
                     after[q] = [tag |-> lines[q].tag,
                                 LRUFlag |-> lines[q].LRUFlag + 1]
    ]_vars

\* A two-way set whose two lines both had recency 0 when a third tag
\* missed: the first line was replaced.
C18_Witness ==
  /\ setSize_ = 2
  /\ Len(memRef_) = 3
  /\ \A j \in 1..3 : ~memRef_[j].hM /\ memRef_[j].index = memRef_[1].index
  /\ \E k \in SetsAt(cacheSet_, memRef_[3].index) :
       cacheSet_[k].cacheLine
         = <<[tag |-> memRef_[3].tag, LRUFlag |-> 0],
             [tag |-> memRef_[2].tag, LRUFlag |-> 1]>>

\* The reference model of LRU: every set is a list of tags ordered by last
\* access, most recent first.  An access moves its tag to the front, and a
\* list longer than the associativity loses its tail.
RefLRUAccess(list, ways, tag) ==
  LET moved == <<tag>> \o SelectSeq(list, LAMBDA t : t # tag)
  IN IF Len(moved) > ways THEN SubSeq(moved, 1, ways) ELSE moved

InList(list, tag) == \E p \in DOMAIN list : list[p] = tag

\* The reference model run over the (index, tag) pairs of refs from
\* reference j on.
RECURSIVE RefLRUFrom(_, _, _, _)
RefLRUFrom(refs, j, ways, ref) ==
  IF j > Len(refs)
  THEN ref
  ELSE LET list == ref.sets[refs[j].index]
       IN RefLRUFrom(refs, j + 1, ways,
            [outcomes |-> Append(ref.outcomes, InList(list, refs[j].tag)),
             sets |-> [ref.sets EXCEPT
                         ![refs[j].index] = RefLRUAccess(list, ways, refs[j].tag)]])

RefLRU(refs, ways, indexes) ==
  RefLRUFrom(refs, 1, ways,
             [outcomes |-> <<>>, sets |-> [i \in indexes |-> <<>>]])

\* C19: under a valid geometry the outcomes recorded so far and the tags
\* resident in every set are those of the reference LRU model run over the
\* same references.
C19_RefinesReferenceLRU ==
  ValidGeometry =>
    LET ref == RefLRU(memRef_, setSize_, 0..(numberOfSets_ - 1))
    IN /\ OutcomesOf(memRef_) = ref.outcomes
       /\ \A k \in DOMAIN cacheSet_ :
            Tags(cacheSet_[k].cacheLine)
              = {ref.sets[cacheSet_[k].index][p] :
                   p \in DOMAIN ref.sets[cacheSet_[k].index]}

\* A two-way set: two misses, a Hit on the first tag, a Miss that evicts the
\* second tag, and a Hit on the first tag again.
C19_Witness ==
  /\ ValidGeometry
  /\ setSize_ = 2
  /\ Len(memRef_) = 5
  /\ \A j \in 1..5 : memRef_[j].index = memRef_[1].index
  /\ OutcomesOf(memRef_) = <<FALSE, FALSE, TRUE, FALSE, TRUE>>
  /\ memRef_[3].tag = memRef_[1].tag
  /\ memRef_[5].tag = memRef_[1].tag

\* Reference j of refs aged the lines of its set: it was a Hit, or a Miss
\* that found the set full (the lines of a set are the distinct tags
\* referenced at its index, up to ways of them).
Aged(refs, j, ways) ==
  \/ refs[j].hM
  \/ Cardinality({refs[i].tag : i \in {h \in RefsAt(refs, refs[j].index) : h < j}})
       >= ways

\* The number of references that aged the set at this index after
\* reference last.
AgedSince(refs, index, last, ways) ==
  Cardinality({j \in RefsAt(refs, index) : j > last /\ Aged(refs, j, ways)})

\* C20: the recency of every resident line is the number of Hits and
\* full-set replacements made in its set, on other lines, since the line was
\* last inserted, hit or replaced; insertions into a set that was not full
\* are not counted.  When the last reference to a set was a Hit or a
\* replacement, the line it accessed is the only line of the set with
\* recency 0.
C20_RecencyCountsAgeing ==
  \A k \in DOMAIN cacheSet_ :
    LET lines == cacheSet_[k].cacheLine
        index == cacheSet_[k].index
        ways == cacheSet_[k].setSize
        refs == RefsAt(memRef_, index)
    IN /\ \A p \in DOMAIN lines :
            /\ RefsOf(memRef_, index, lines[p].tag) # {}
            /\ lines[p].LRUFlag
                 = AgedSince(memRef_, index,
                             LastUse(memRef_, index, lines[p].tag), ways)
       /\ (refs # {} /\ Aged(memRef_, Max(refs), ways)) =>
            \A p \in DOMAIN lines :
              lines[p].LRUFlag = 0 <=> lines[p].tag = memRef_[Max(refs)].tag

\* A three-way set after two insertions, two Hits on the second line and a
\* third insertion: the first line has recency 2 (the Hits, not the
\* insertions) and the other two lines share recency 0.
C20_Witness ==
  /\ setSize_ = 3
  /\ Len(memRef_) = 5
  /\ OutcomesOf(memRef_) = <<FALSE, FALSE, TRUE, TRUE, FALSE>>
  /\ \E k \in DOMAIN cacheSet_ :
       /\ Len(cacheSet_[k].cacheLine) = 3
       /\ cacheSet_[k].cacheLine[1].LRUFlag = 2
       /\ cacheSet_[k].cacheLine[2].LRUFlag = 0
       /\ cacheSet_[k].cacheLine[3].LRUFlag = 0

\* A line whose recency is above setSize - 1.
C20_RecencyAboveWays ==
  \E k \in DOMAIN cacheSet_ :
    \E p \in DOMAIN cacheSet_[k].cacheLine :
      cacheSet_[k].cacheLine[p].LRUFlag > cacheSet_[k].setSize - 1

====
